---- MODULE Spec2Model ----
(***************************************************************************)
(* Model of the HypnoFlow real-time audio core.                            *)
(*                                                                         *)
(*  - PlaybackScheduler: the onmessage callback of LiveSession             *)
(*    (components/LiveSession.tsx), which schedules streamed speech chunks *)
(*    on the cursor nextStartTimeRef and flushes them on interruption.     *)
(*  - LyriaEngine (utils/musicEngine.ts): play / stop of the synthesis     *)
(*    layers.                                                              *)
(*                                                                         *)
(* Times are integers (ticks of the output context's clock).               *)
(***************************************************************************)
EXTENDS Integers, FiniteSets, Sequences, TLC

\* ---------------------------------------------------------------- bounds
MaxTime == 2
MaxChunks == 2
MaxDur == 1
MaxInterrupts == 1
MaxPlays == 2
MaxCtxTime == 1
MaxFaults == 1
MaxFrames == 3
MaxPolls == 1
NumBins == 2
BufLen == 1
MaxSessions == 2

Chunks == 1..MaxChunks
Plays == 1..MaxPlays
Durations == 1..MaxDur

Max(a, b) == IF a >= b THEN a ELSE b
Min(a, b) == IF a <= b THEN a ELSE b

\* ---------------------------------------------------------------- state
VARIABLES
  \* LiveSession
  sessionRef,        \* "null" | "pending" | "open"   (sessionRef / sessionPromise)
  audioContextRef,   \* TRUE iff audioContextRef.current is an AudioContext
  isConnected,
  modelState,        \* "idle" | "listening" | "speaking"
  now,               \* audioContextRef.current.currentTime
  nextStartTimeRef,  \* the playback cursor
  sourcesRef,        \* ActiveSourceSet: ids of the chunks whose source is in the set
  analyserRef,       \* id of the chunk whose analyser is referenced, 0 for null
  currentVolume,
  chunk,             \* per chunk message: position of its onmessage call and its source node
  arrived,           \* number of audio messages received so far
  interrupts,        \* number of runs of the interruption branch so far
  lastReset,         \* cursor value assigned by the most recent run of that branch
  \* LyriaEngine
  ctx,               \* this.ctx: 0 for null, else the number of the play that created it
  ctxState,          \* per context: "none" | "suspended" | "running" | "closed"
  masterGain,        \* TRUE iff this.masterGain is a GainNode
  gain,              \* target of masterGain.gain, in tenths
  ambientSource, binauralLeft, binauralRight, isochronicOsc, isochronicLFO,
                     \* node slots: 0 for null, else the number of the play that made the node
  isPlaying,
  running,           \* source nodes started and not stopped: <<kind, play number>>
  caught,            \* the exception the last stop() caught from a node's .stop(), or "none"
  plays,             \* number of play() calls so far
  play,              \* per play() call: where it is suspended, its config, the context it resumes
  error,             \* what the last completed LyriaEngine call raised, "none" if nothing
  lastCall,          \* last LyriaEngine method that completed
  \* LiveSession, microphone capture
  inputContextRef,   \* TRUE iff inputContextRef.current is an AudioContext
  streamRef,         \* TRUE iff streamRef.current is the microphone stream
  trackEnabled,      \* the enabled flag of the stream's audio tracks
  micOn,
  processorRef,      \* TRUE iff processorRef.current is the script processor
  onaudioprocess,    \* TRUE iff the processor's callback is the framing callback
  sessionResolved,   \* TRUE iff sessionPromise has resolved with the session
  produced,          \* the frames handed to onaudioprocess so far, in order
  thenQueue,         \* reactions registered on sessionPromise and not yet run, in order
  sent,              \* the arguments of session.sendRealtimeInput, in call order
  \* LiveSession, volume polling
  polls,             \* number of runs of the interval callback so far
  sampled,           \* what the last run read: the analyser (its chunk, 0 for none)
                     \* and the bins it returned
  \* the signal graph of one play() body
  config,            \* the argument of play()
  clock,             \* this.ctx.currentTime
  built,             \* TRUE iff the body of play() has run
  edges,             \* connections made: <<from, output, to, "in0" | "in1" | parameter>>
  frequency,         \* frequency.value per oscillator, in Hz, 0 if it has none
  gainValue,         \* gain.value per gain node, in hundredths
  white,             \* the draws of Math.random() * 2 - 1, per channel and frame
  data,              \* the noise buffer's samples, per channel and frame
  \* LiveSession, life cycle
  mounted,           \* the component is mounted
  sessionError,      \* the `error` state of the component is set
  sessions,          \* the number of runs of connectToLiveAPI so far
  live,              \* per kind of resource, how many are open
  closedAt,          \* the number of frames captured when onclose or onerror
                     \* was handled, -1 while neither has been
  started            \* start() calls made: <<node, time passed>>

schedVars == <<sessionRef, audioContextRef, isConnected, modelState, now,
               nextStartTimeRef, sourcesRef, analyserRef, currentVolume, chunk,
               arrived, interrupts, lastReset>>
engineVars == <<ctx, ctxState, masterGain, gain, ambientSource, binauralLeft,
                binauralRight, isochronicOsc, isochronicLFO, isPlaying, running,
                caught, plays, play, error, lastCall>>
captureVars == <<inputContextRef, streamRef, trackEnabled, micOn, processorRef,
                 onaudioprocess, sessionResolved, produced, thenQueue, sent>>
meterVars == <<polls, sampled>>
graphVars ==
  <<config, clock, built, edges, frequency, gainValue, started, white, data>>
lifeVars == <<mounted, sessionError, sessions, live, closedAt>>
vars == <<schedVars, engineVars, captureVars, meterVars, graphVars, lifeVars>>

\* A chunk message that has not arrived yet.
NoChunk ==
  [st |-> "none", ok |-> FALSE, intr |-> FALSE, dur |-> 0,
   when |-> 0, began |-> 0, stopReq |-> FALSE, fresh |-> FALSE]

SchedInit ==
  /\ sessionRef = "null"
  /\ audioContextRef = FALSE
  /\ isConnected = FALSE
  /\ modelState = "idle"
  /\ now = 0
  /\ nextStartTimeRef = 0
  /\ sourcesRef = {}
  /\ analyserRef = 0
  /\ currentVolume = 0
  /\ chunk = [c \in Chunks |-> NoChunk]
  /\ arrived = 0
  /\ interrupts = 0
  /\ lastReset = 0

\* The resources a session holds.
Resources == {"outputCtx", "inputCtx", "stream", "processor", "session"}

\* The component is mounted and has opened nothing.
LifeInit ==
  /\ mounted = TRUE
  /\ sessionError = FALSE
  /\ sessions = 0
  /\ live = [r \in Resources |-> 0]
  /\ closedAt = -1

\* Variant of EngineInit in which the constructor calls init().
EngineInitEager ==
  /\ ctx = 1
  /\ ctxState = [g \in Plays |-> IF g = 1 THEN "suspended" ELSE "none"]
  /\ masterGain = TRUE
  /\ gain = 5
  /\ ambientSource = 0 /\ binauralLeft = 0 /\ binauralRight = 0
  /\ isochronicOsc = 0 /\ isochronicLFO = 0
  /\ isPlaying = FALSE
  /\ running = {}
  /\ caught = "none"
  /\ plays = 0
  /\ play = [p \in Plays |-> [pc |-> "none", iso |-> FALSE, ctx |-> 0]]
  /\ error = "none"
  /\ lastCall = "new"

EngineInit ==
  /\ ctx = 0
  /\ ctxState = [g \in Plays |-> "none"]
  /\ masterGain = FALSE
  /\ gain = 0
  /\ ambientSource = 0
  /\ binauralLeft = 0
  /\ binauralRight = 0
  /\ isochronicOsc = 0
  /\ isochronicLFO = 0
  /\ isPlaying = FALSE
  /\ running = {}
  /\ caught = "none"
  /\ plays = 0
  /\ play = [p \in Plays |-> [pc |-> "none", iso |-> FALSE, ctx |-> 0]]
  /\ error = "none"
  /\ lastCall = "new"

CaptureInit ==
  /\ inputContextRef = FALSE
  /\ streamRef = FALSE
  /\ trackEnabled = TRUE
  /\ micOn = TRUE
  /\ processorRef = FALSE
  /\ onaudioprocess = FALSE
  /\ sessionResolved = FALSE
  /\ produced = <<>>
  /\ thenQueue = <<>>
  /\ sent = <<>>

\* The interval callback has read no analyser.
NoSample == [analyser |-> 0, bins |-> <<>>]

MeterInit ==
  /\ polls = 0
  /\ sampled = NoSample

\* Values of baseFreq and binauralFreq in the configuration, in Hz.  The
\* program takes them from the generated session without checking them.
BaseFreqs == {100, 200, 300, 400}
BinauralFreqs == {0, 6, 10}

Configs ==
  [baseFreq : BaseFreqs, binauralFreq : BinauralFreqs, isochronic : BOOLEAN]

\* geminiService: the configuration used when the session brings none.
DefaultConfig == [baseFreq |-> 200, binauralFreq |-> 6, isochronic |-> FALSE]

Oscillators ==
  {"filterLFO", "binauralLeft", "binauralRight", "isochronicOsc", "isochronicLFO"}

\* createBuffer(2, bufferSize, sampleRate): two channels of BufLen frames.
NumChannels == 2

\* Values of `white`: the ends and the middle of [-1, 1].
Whites == {-1, 0, 1}
WhiteDraws == [1..NumChannels -> [1..BufLen -> Whites]]

\* The gain nodes play() creates besides the master gain.
GainNodes == {"lfoGain", "ambientGain", "binauralGain", "isoGain", "lfoGainNode"}

\* The session plan as the model's JSON answer gives it: musicConfig may be
\* missing; when present its numbers are whatever the answer holds.
GeneratedData == [present : BOOLEAN, musicConfig : Configs]

\* geminiService: const musicConfig = data.musicConfig || { ...default }.
MusicConfigOf(d) == IF d.present THEN d.musicConfig ELSE DefaultConfig

\* LiveSession: the object literal handed to lyria.play().
PlayConfigOf(mc) ==
  [baseFreq |-> mc.baseFreq, binauralFreq |-> mc.binauralFreq,
   isochronic |-> mc.isochronic]

\* No graph has been built.
NoGraph ==
  /\ clock = 0
  /\ built = FALSE
  /\ edges = {}
  /\ frequency = [o \in Oscillators |-> 0]
  /\ gainValue = [g \in GainNodes |-> 0]
  /\ data = <<>>
  /\ started = {}

GraphIdle ==
  /\ config = DefaultConfig
  /\ white = [ch \in 1..NumChannels |-> [i \in 1..BufLen |-> 0]]
  /\ NoGraph

Init ==
  SchedInit /\ EngineInit /\ CaptureInit /\ MeterInit /\ GraphIdle /\ LifeInit

\* ------------------------------------------------- PlaybackScheduler steps

\* Variant of RaiseCursor that takes the clock without the max.
RaiseCursorToNow(cur, t) == t

\* Math.max(nextStartTimeRef.current, ctx.currentTime)
RaiseCursor(cur, t) == Max(cur, t)

\* nextStartTimeRef.current += audioBuffer.duration
AdvanceCursor(cur, d) == cur + d

\* Variant of ResetCursor that leaves the cursor alone.
ResetCursorKeep(cur, t) == cur

\* nextStartTimeRef.current = audioContextRef.current.currentTime
ResetCursor(cur, t) == t

\* Variant of ClearSources that forgets to clear.
ClearSourcesKeep(S) == S

\* sourcesRef.current.clear()
ClearSources(S) == {}

\* AudioBufferSourceNode.start(when): a start time in the past plays at once.
StartTime(when, t) == Max(when, t)

\* The sources that forEach visits when the .stop() of the sources in G throws:
\* the try/catch is inside the callback, so all of them.
FlushVisited(S, G) == S

\* sourcesRef.current.forEach(src => { try { src.stop(); } catch(e) {} })
\* A source whose .stop() throws had already stopped.
StopAll(ch, S) ==
  [c \in Chunks |-> IF c \in S THEN [ch[c] EXCEPT !.stopReq = TRUE] ELSE ch[c]]

\* A run of the interruption branch ends the stretch in which the chunks
\* received so far count as received since the last interruption.
Stale(ch) == [c \in Chunks |-> [ch[c] EXCEPT !.fresh = FALSE]]

\* Nothing of an earlier session is being decoded or played.
Quiet ==
  /\ sourcesRef = {}
  /\ \A c \in Chunks : chunk[c].st \notin {"decoding", "playing"}

\* The Play control is rendered: !isConnected && !error.
PlayShown == mounted /\ ~isConnected /\ ~sessionError

\* What connectToLiveAPI opens: two contexts, the stream and the voice session.
OpenedByConnect == {"outputCtx", "inputCtx", "stream", "session"}

\* connectToLiveAPI, run by a click on the Play control: new output and input
\* contexts are created, resumed and stored over the refs, the microphone
\* stream, whose tracks are enabled, is obtained and the voice session is
\* requested.  The clock followed
\* is that of the context in audioContextRef, and a new context starts at 0.
\* The click is followed when no session is pending or open and the earlier
\* session, if any, has nothing left in flight.
Connect ==
  /\ PlayShown
  /\ sessionRef \in {"null", "closed"}
  /\ Quiet
  /\ sessions < MaxSessions
  /\ sessions' = sessions + 1
  /\ live' = [r \in Resources |->
               IF r \in OpenedByConnect THEN live[r] + 1 ELSE live[r]]
  /\ audioContextRef' = TRUE
  /\ now' = 0
  /\ inputContextRef' = TRUE
  /\ streamRef' = TRUE
  /\ sessionRef' = "pending"
  /\ UNCHANGED <<isConnected, modelState, nextStartTimeRef, sourcesRef,
                 analyserRef, currentVolume, chunk, arrived, interrupts, lastReset>>
  /\ trackEnabled' = TRUE
  /\ UNCHANGED <<micOn, processorRef, onaudioprocess,
                 sessionResolved, produced, thenQueue, sent>>
  /\ UNCHANGED <<mounted, sessionError, closedAt>>
  /\ UNCHANGED <<engineVars, meterVars, graphVars>>

\* callbacks.onopen
OnOpen ==
  /\ sessionRef = "pending"
  /\ sessionRef' = "open"
  /\ isConnected' = TRUE
  /\ modelState' = "listening"
  /\ processorRef' = TRUE
  /\ onaudioprocess' = TRUE
  /\ live' = [live EXCEPT !["processor"] = @ + 1]
  /\ UNCHANGED <<audioContextRef, now, nextStartTimeRef, sourcesRef, analyserRef,
                 currentVolume, chunk, arrived, interrupts, lastReset>>
  /\ UNCHANGED <<inputContextRef, streamRef, trackEnabled, micOn, sessionResolved,
                 produced, thenQueue, sent>>
  /\ UNCHANGED <<mounted, sessionError, sessions, closedAt>>
  /\ UNCHANGED <<engineVars, meterVars, graphVars>>

\* The clock of the output context advances.
Tick ==
  /\ audioContextRef
  /\ now < MaxTime
  /\ now' = now + 1
  /\ UNCHANGED <<sessionRef, audioContextRef, isConnected, modelState,
                 nextStartTimeRef, sourcesRef, analyserRef, currentVolume, chunk,
                 arrived, interrupts, lastReset>>
  /\ UNCHANGED <<engineVars, captureVars, meterVars, graphVars, lifeVars>>

\* The messages in flight whose interruption branch has yet to run.
PendingInterrupted == {c \in Chunks : chunk[c].st = "decoding" /\ chunk[c].intr}

\* onmessage with audio data, up to the await of decodeAudioData.
\* ok: the payload is decodable; d: the duration of the decoded buffer;
\* intr: the same message also carries serverContent.interrupted.
OnMessageAudio(ok, d, intr) ==
  /\ sessionRef = "open"
  /\ arrived < MaxChunks
  /\ intr => interrupts + Cardinality(PendingInterrupted) < MaxInterrupts
  /\ LET c == arrived + 1 IN
     /\ arrived' = c
     /\ modelState' = "speaking"
     /\ IF ~audioContextRef
          THEN UNCHANGED <<nextStartTimeRef, chunk>>
          ELSE /\ nextStartTimeRef' = RaiseCursor(nextStartTimeRef, now)
               /\ chunk' = [chunk EXCEPT ![c] =
                    [NoChunk EXCEPT !.st = "decoding", !.ok = ok, !.intr = intr,
                                    !.dur = d, !.fresh = TRUE]]
  /\ UNCHANGED <<sessionRef, audioContextRef, isConnected, now, sourcesRef,
                 analyserRef, currentVolume, interrupts, lastReset>>
  /\ UNCHANGED <<engineVars, captureVars, meterVars, graphVars, lifeVars>>

\* decodeAudioData(base64ToUint8Array(audioData), ctx): the promise resolves
\* with a buffer for a decodable payload and rejects for a malformed one.
decodeAudioData(c) == IF chunk[c].ok THEN "buffer" ELSE "error"

\* onmessage after the await: the decoded chunk is wired, started at the cursor
\* and added to sourcesRef; then the interruption branch of the same message,
\* with G the sources whose .stop() throws.
DecodeResolve(c, G) ==
  /\ chunk[c].st = "decoding"
  /\ decodeAudioData(c) = "buffer"
  /\ G \subseteq (IF chunk[c].intr THEN sourcesRef \cup {c} ELSE {})
  /\ LET when == nextStartTimeRef
         began == StartTime(when, now)
         sched == [chunk EXCEPT ![c] =
                     [@ EXCEPT !.st = "playing", !.when = when,
                               !.began = began]]
         cur == AdvanceCursor(nextStartTimeRef, chunk[c].dur)
         srcs == sourcesRef \cup {c}
     IN /\ analyserRef' = c
        /\ IF chunk[c].intr
             THEN /\ chunk' = Stale(StopAll(sched, FlushVisited(srcs, G)))
                  /\ sourcesRef' = ClearSources(srcs)
                  /\ nextStartTimeRef' = IF audioContextRef THEN ResetCursor(cur, now)
                                         ELSE cur
                  /\ modelState' = "listening"
                  /\ interrupts' = interrupts + 1
                  /\ lastReset' = nextStartTimeRef'
             ELSE /\ chunk' = sched
                  /\ sourcesRef' = srcs
                  /\ nextStartTimeRef' = cur
                  /\ UNCHANGED <<modelState, interrupts, lastReset>>
  /\ UNCHANGED <<sessionRef, audioContextRef, isConnected, now, currentVolume,
                 arrived>>
  /\ UNCHANGED <<engineVars, captureVars, meterVars, graphVars, lifeVars>>

\* onmessage after the await, decode rejected: the async callback ends with the
\* rejection; nothing after line 155 runs for this message.
DecodeReject(c) ==
  /\ chunk[c].st = "decoding"
  /\ decodeAudioData(c) = "error"
  /\ chunk' = [chunk EXCEPT ![c].st = "failed"]
  /\ UNCHANGED <<sessionRef, audioContextRef, isConnected, modelState, now,
                 nextStartTimeRef, sourcesRef, analyserRef, currentVolume,
                 arrived, interrupts, lastReset>>
  /\ UNCHANGED <<engineVars, captureVars, meterVars, graphVars, lifeVars>>

\* onmessage for a message without audio data that carries
\* serverContent.interrupted, with G the sources whose .stop() throws.
OnMessageInterrupted(G) ==
  /\ sessionRef = "open"
  /\ G \subseteq sourcesRef
  /\ interrupts + Cardinality(PendingInterrupted) < MaxInterrupts
  /\ chunk' = Stale(StopAll(chunk, FlushVisited(sourcesRef, G)))
  /\ sourcesRef' = ClearSources(sourcesRef)
  /\ nextStartTimeRef' = IF audioContextRef THEN ResetCursor(nextStartTimeRef, now)
                         ELSE nextStartTimeRef
  /\ modelState' = "listening"
  /\ interrupts' = interrupts + 1
  /\ lastReset' = nextStartTimeRef'
  /\ UNCHANGED <<sessionRef, audioContextRef, isConnected, now, analyserRef,
                 currentVolume, arrived>>
  /\ UNCHANGED <<engineVars, captureVars, meterVars, graphVars, lifeVars>>

\* source.onended: fired when the buffer has played to its end or after stop().
OnEnded(c) ==
  /\ chunk[c].st = "playing"
  /\ chunk[c].stopReq \/ now >= chunk[c].began + chunk[c].dur
  /\ chunk' = [chunk EXCEPT ![c].st = "done"]
  /\ sourcesRef' = sourcesRef \ {c}
  /\ IF sourcesRef' = {}
       THEN /\ modelState' = "listening"
            /\ analyserRef' = 0
            /\ currentVolume' = 0
       ELSE UNCHANGED <<modelState, analyserRef, currentVolume>>
  /\ UNCHANGED <<sessionRef, audioContextRef, isConnected, now, nextStartTimeRef,
                 arrived, interrupts, lastReset>>
  /\ UNCHANGED <<engineVars, captureVars, meterVars, graphVars, lifeVars>>

Next ==
  \/ Connect
  \/ OnOpen
  \/ Tick
  \/ \E ok \in BOOLEAN, d \in Durations, intr \in BOOLEAN : OnMessageAudio(ok, d, intr)
  \/ \E c \in Chunks : DecodeResolve(c, {})
  \/ \E c \in Chunks : DecodeReject(c)
  \/ OnMessageInterrupted({})
  \/ \E c \in Chunks : OnEnded(c)

Spec == Init /\ [][Next]_vars

\* ------------------------------------------------------ LyriaEngine steps

\* this.masterGain.gain.value = 0.5, in tenths
DefaultGain == 5

\* Values the session passes to setVolume (musicVol), in tenths.
Volumes == {0, 3, 10}

\* The node fields of the engine, in the order in which stop() visits them.
SlotOrder ==
  <<"ambientSource", "binauralLeft", "binauralRight", "isochronicOsc",
    "isochronicLFO">>

SlotKinds == {SlotOrder[i] : i \in 1..Len(SlotOrder)}

\* The value of a node field: 0 for null, else the play that made the node.
Slot(k) ==
  CASE k = "ambientSource" -> ambientSource
    [] k = "binauralLeft" -> binauralLeft
    [] k = "binauralRight" -> binauralRight
    [] k = "isochronicOsc" -> isochronicOsc
    [] k = "isochronicLFO" -> isochronicLFO

\* The node fields that hold a node.
HeldKinds == {k \in SlotKinds : Slot(k) # 0}

\* The sets of nodes whose .stop() may throw during one stop().
StopFaults == {F \in SUBSET HeldKinds : Cardinality(F) <= MaxFaults}

\* What a node's .stop() may throw: the error of a node that is not in a
\* state to be stopped, or any other error.
AlreadyStopped == "InvalidStateError"
StopErrors == {AlreadyStopped, "TypeError"}

\* What the `catch(e) {}` of stop() has caught when the .stop() of the nodes in
\* F throws.
CaughtBy(F) == IF F = {} THEN {"none"} ELSE StopErrors

\* Variant of Visited in which the first throwing .stop() ends stop().
VisitedUntilThrow(F) ==
  {SlotOrder[i] : i \in {n \in 1..Len(SlotOrder) :
                           \A m \in 1..n : SlotOrder[m] \notin F}}

\* The fields whose statement `if (x) { try { x.stop(); } catch(e){} x = null; }`
\* runs to its end when the .stop() of the nodes in F throws: each has its own
\* try/catch, so all of them.
Visited(F) == SlotKinds

\* Variant of StoppedByStop that leaves the isochronic fields out.
StoppedByStopNoIso(F) ==
  {n \in running : n[1] \in {"ambientSource", "binauralLeft", "binauralRight"}
                   /\ n[2] = Slot(n[1])}

\* The running nodes that a stop() ends: those held in a visited field.  A node
\* whose .stop() throws had already stopped.
StoppedByStop(F) ==
  {n \in running : n[1] \in Visited(F) /\ n[1] \in SlotKinds /\ n[2] = Slot(n[1])}

\* The value of field k after stop().
SlotAfterStop(k, F) == IF k \in Visited(F) THEN 0 ELSE Slot(k)

\* The source nodes on which the body of play number p calls .start(t).
StartedKinds(iso) ==
  {"filterLFO", "ambientSource", "binauralLeft", "binauralRight"}
  \cup (IF iso THEN {"isochronicOsc", "isochronicLFO"} ELSE {})

StartedByPlay(p, iso) == { <<k, p>> : k \in StartedKinds(iso) }

\* stop(), with F the nodes whose .stop() throws.
StopBody(F) ==
  /\ running' = running \ StoppedByStop(F)
  /\ caught' \in CaughtBy(F)
  /\ ambientSource' = SlotAfterStop("ambientSource", F)
  /\ binauralLeft' = SlotAfterStop("binauralLeft", F)
  /\ binauralRight' = SlotAfterStop("binauralRight", F)
  /\ isochronicOsc' = SlotAfterStop("isochronicOsc", F)
  /\ isochronicLFO' = SlotAfterStop("isochronicLFO", F)

\* play(), from this.stop() to the end, for call number p.  Reading
\* this.ctx!.currentTime raises a TypeError when this.ctx is null.
PlayBody(p, iso, F) ==
  /\ isPlaying' = TRUE
  /\ lastCall' = "play"
  /\ IF ctx = 0
       THEN /\ error' = "TypeError"
            /\ StopBody(F)
       ELSE /\ error' = "none"
            /\ running' = (running \ StoppedByStop(F))
                            \cup StartedByPlay(p, iso)
            /\ caught' \in CaughtBy(F)
            /\ ambientSource' = p /\ binauralLeft' = p /\ binauralRight' = p
            /\ isochronicOsc' = (IF iso THEN p ELSE SlotAfterStop("isochronicOsc", F))
            /\ isochronicLFO' = (IF iso THEN p ELSE SlotAfterStop("isochronicLFO", F))

\* play(config) is called: init() when there is no context, then either the
\* call is suspended at an await or its body runs at once.
\* st: the state in which the platform creates a new context.
PlayCall(iso, st, F) ==
  /\ plays < MaxPlays
  /\ LET p == plays + 1 IN
     /\ plays' = p
     /\ IF ctx = 0
          THEN /\ F = {}
               /\ ctx' = p
               /\ ctxState' = [ctxState EXCEPT ![p] = st]
               /\ masterGain' = TRUE
               /\ gain' = DefaultGain
               /\ play' = [play EXCEPT ![p] = [pc |-> "init", iso |-> iso, ctx |-> 0]]
               /\ UNCHANGED <<ambientSource, binauralLeft, binauralRight,
                              isochronicOsc, isochronicLFO, isPlaying, running, caught,
                              error, lastCall>>
          ELSE /\ st = "running"
               /\ UNCHANGED <<ctx, ctxState, masterGain, gain>>
               /\ IF ctxState[ctx] = "suspended"
                    THEN /\ F = {}
                         /\ play' = [play EXCEPT ![p] =
                                       [pc |-> "resume", iso |-> iso, ctx |-> ctx]]
                         /\ UNCHANGED <<ambientSource, binauralLeft, binauralRight,
                                        isochronicOsc, isochronicLFO, isPlaying,
                                        running, caught, error, lastCall>>
                    ELSE /\ play' = [play EXCEPT ![p] =
                                       [pc |-> "done", iso |-> iso, ctx |-> 0]]
                         /\ PlayBody(p, iso, F)
  /\ UNCHANGED <<schedVars, captureVars, meterVars, graphVars, lifeVars>>

\* play() continues after `await this.init()`.
PlayAfterInit(p, F) ==
  /\ play[p].pc = "init"
  /\ UNCHANGED <<ctx, ctxState, masterGain, gain, plays>>
  /\ IF ctx # 0 /\ ctxState[ctx] = "suspended"
       THEN /\ F = {}
            /\ play' = [play EXCEPT ![p].pc = "resume", ![p].ctx = ctx]
            /\ UNCHANGED <<ambientSource, binauralLeft, binauralRight,
                           isochronicOsc, isochronicLFO, isPlaying, running, caught,
                           error, lastCall>>
       ELSE /\ play' = [play EXCEPT ![p].pc = "done"]
            /\ PlayBody(p, play[p].iso, F)
  /\ UNCHANGED <<schedVars, captureVars, meterVars, graphVars, lifeVars>>

\* play() continues after `await this.ctx.resume()`; resume() of a context that
\* was closed in the meantime rejects, which ends the call.
PlayAfterResume(p, F) ==
  /\ play[p].pc = "resume"
  /\ play' = [play EXCEPT ![p].pc = "done"]
  /\ UNCHANGED <<ctx, masterGain, gain, plays>>
  /\ IF ctxState[play[p].ctx] = "closed"
       THEN /\ F = {}
            /\ error' = "InvalidStateError"
            /\ lastCall' = "play"
            /\ UNCHANGED <<ctxState, ambientSource, binauralLeft, binauralRight,
                           isochronicOsc, isochronicLFO, isPlaying, running, caught>>
       ELSE /\ ctxState' = [ctxState EXCEPT ![play[p].ctx] = "running"]
            /\ PlayBody(p, play[p].iso, F)
  /\ UNCHANGED <<schedVars, captureVars, meterVars, graphVars, lifeVars>>

\* Variant of Stop that calls .stop() on a field without testing it for null.
StopUnguarded(F) ==
  /\ isPlaying' = FALSE
  /\ StopBody(F)
  /\ error' = (IF HeldKinds = SlotKinds THEN "none" ELSE "TypeError")
  /\ lastCall' = "stop"
  /\ UNCHANGED <<ctx, ctxState, masterGain, gain, plays, play>>
  /\ UNCHANGED <<schedVars, captureVars, meterVars, graphVars, lifeVars>>

\* stop()
Stop(F) ==
  /\ isPlaying' = FALSE
  /\ StopBody(F)
  /\ error' = "none"
  /\ lastCall' = "stop"
  /\ UNCHANGED <<ctx, ctxState, masterGain, gain, plays, play>>
  /\ UNCHANGED <<schedVars, captureVars, meterVars, graphVars, lifeVars>>

\* setVolume(val)
SetVolume(val) ==
  /\ IF masterGain
       THEN IF ctx = 0
              THEN error' = "TypeError" /\ UNCHANGED gain
              ELSE error' = "none" /\ gain' = val
       ELSE error' = "none" /\ UNCHANGED gain
  /\ lastCall' = "setVolume"
  /\ UNCHANGED <<ctx, ctxState, masterGain, ambientSource, binauralLeft,
                 binauralRight, isochronicOsc, isochronicLFO, isPlaying, running, caught,
                 plays, play>>
  /\ UNCHANGED <<schedVars, captureVars, meterVars, graphVars, lifeVars>>

\* destroy()
Destroy(F) ==
  /\ isPlaying' = FALSE
  /\ StopBody(F)
  /\ IF ctx # 0
       THEN /\ ctxState' = [ctxState EXCEPT ![ctx] = "closed"]
            /\ ctx' = 0
       ELSE UNCHANGED <<ctx, ctxState>>
  /\ error' = "none"
  /\ lastCall' = "destroy"
  /\ UNCHANGED <<masterGain, gain, plays, play>>
  /\ UNCHANGED <<schedVars, captureVars, meterVars, graphVars, lifeVars>>

\* The engine on a platform where .stop() of a started node does not throw.
EngineNext ==
  \/ \E iso \in BOOLEAN, st \in {"suspended", "running"} : PlayCall(iso, st, {})
  \/ \E p \in Plays : PlayAfterInit(p, {})
  \/ \E p \in Plays : PlayAfterResume(p, {})
  \/ Stop({})
  \/ \E val \in Volumes : SetVolume(val)
  \/ Destroy({})

EngineSpec == Init /\ [][EngineNext]_vars

\* ---------------------------------------------------- volume polling

\* Values of one byte of getByteFrequencyData.
ByteValues == {0, 128, 255}

\* The snapshots an analyser can return; its frequencyBinCount (128 in the
\* program) is scaled down to NumBins.
Snapshots == [1..NumBins -> ByteValues]

\* currentVolume is kept in units of 1/FullScale, so that 1.0 is FullScale.
FullScale == 128 * NumBins

RECURSIVE Sum(_)
Sum(q) == IF q = <<>> THEN 0 ELSE Head(q) + Sum(Tail(q))

\* Variant of VolumeOf without the Math.min.
VolumeOfUncapped(bins) == Sum(bins)

\* Math.min(1, (sum / dataArray.length) / 128)
VolumeOf(bins) == Min(FullScale, Sum(bins))

\* The callback of the 50 ms interval; bins is what getByteFrequencyData
\* returns when it is called (all zero stands for a run that does not call it).
Poll(bins) ==
  /\ polls < MaxPolls
  /\ polls' = polls + 1
  /\ IF analyserRef # 0 /\ modelState = "speaking"
       THEN /\ sampled' = [analyser |-> analyserRef, bins |-> bins]
            /\ currentVolume' = VolumeOf(bins)
       ELSE /\ bins = [i \in 1..NumBins |-> 0]
            /\ sampled' = NoSample
            /\ currentVolume' = 0
  /\ UNCHANGED <<sessionRef, audioContextRef, isConnected, modelState, now,
                 nextStartTimeRef, sourcesRef, analyserRef, chunk, arrived,
                 interrupts, lastReset>>
  /\ UNCHANGED <<engineVars, captureVars, graphVars, lifeVars>>

\* The session with its volume polling.
MeterNext ==
  \/ Next
  \/ \E bins \in Snapshots : Poll(bins)

MeterSpec == Init /\ [][MeterNext]_vars

\* The volume polling beside a session whose chunks all decode and play to
\* their end: the runs in which onended, the other writer of currentVolume,
\* fires for natural completion.
PollNext ==
  \/ Connect
  \/ OnOpen
  \/ Tick
  \/ \E d \in Durations : OnMessageAudio(TRUE, d, FALSE)
  \/ \E c \in Chunks : DecodeResolve(c, {})
  \/ \E c \in Chunks : OnEnded(c)
  \/ \E bins \in Snapshots : Poll(bins)

PollSpec == Init /\ [][PollNext]_vars

\* ------------------------------------------------- microphone capture

\* What the microphone picks up during one frame.
Samples == {"speech", "quiet"}

\* A MediaStreamTrack whose enabled flag is false delivers silence.
TrackOutput(enabled, heard) == IF enabled THEN heard ELSE "silence"

\* createPcmBlob(inputData): the frame as 16-bit PCM with its declared rate.
createPcmBlob(frame) ==
  [data |-> <<"pcm16", frame.seq, frame.samples>>, mimeType |-> "audio/pcm;rate=16000"]

\* Variant of ThenRegister that drops the reaction while the promise is
\* pending, as a send on the resolved session object alone would.
ThenRegisterIfResolved(q, blob) == IF sessionResolved THEN Append(q, blob) ELSE q

\* sessionPromise.then(session => ...): reactions run in registration order.
ThenRegister(q, blob) == Append(q, blob)

\* sessionPromise resolves with the session once the connection is open.
SessionResolves ==
  /\ sessionRef = "open"
  /\ ~sessionResolved
  /\ sessionResolved' = TRUE
  /\ UNCHANGED <<inputContextRef, streamRef, trackEnabled, micOn, processorRef,
                 onaudioprocess, produced, thenQueue, sent>>
  /\ UNCHANGED <<schedVars, engineVars, meterVars, graphVars, lifeVars>>

\* processor.onaudioprocess: one full input buffer is encoded and a reaction
\* that sends it is registered on sessionPromise.
OnAudioProcess(heard) ==
  /\ processorRef
  /\ onaudioprocess
  /\ Len(produced) < MaxFrames
  /\ LET frame == [seq |-> Len(produced) + 1,
                   samples |-> TrackOutput(trackEnabled, heard)]
         pcmBlob == createPcmBlob(frame)
     IN /\ produced' = Append(produced, frame)
        /\ thenQueue' = ThenRegister(thenQueue, pcmBlob)
  /\ UNCHANGED <<inputContextRef, streamRef, trackEnabled, micOn, processorRef,
                 onaudioprocess, sessionResolved, sent>>
  /\ UNCHANGED <<schedVars, engineVars, meterVars, graphVars, lifeVars>>

\* The oldest pending reaction runs: session.sendRealtimeInput({ media: pcmBlob }).
RunThen ==
  /\ sessionResolved
  /\ thenQueue # <<>>
  /\ sent' = Append(sent, [media |-> Head(thenQueue)])
  /\ thenQueue' = Tail(thenQueue)
  /\ UNCHANGED <<inputContextRef, streamRef, trackEnabled, micOn, processorRef,
                 onaudioprocess, sessionResolved, produced>>
  /\ UNCHANGED <<schedVars, engineVars, meterVars, graphVars, lifeVars>>

\* Variant of toggleMic that also detaches the framing callback when muting.
toggleMicPausing ==
  /\ IF streamRef
       THEN /\ trackEnabled' = ~micOn
            /\ micOn' = ~micOn
            /\ onaudioprocess' = (processorRef /\ ~micOn)
       ELSE UNCHANGED <<trackEnabled, micOn, onaudioprocess>>
  /\ UNCHANGED <<inputContextRef, streamRef, processorRef,
                 sessionResolved, produced, thenQueue, sent>>
  /\ UNCHANGED <<schedVars, engineVars, meterVars, graphVars, lifeVars>>

\* toggleMic
toggleMic ==
  /\ IF streamRef
       THEN /\ trackEnabled' = ~micOn
            /\ micOn' = ~micOn
       ELSE UNCHANGED <<trackEnabled, micOn>>
  /\ UNCHANGED <<inputContextRef, streamRef, processorRef, onaudioprocess,
                 sessionResolved, produced, thenQueue, sent>>
  /\ UNCHANGED <<schedVars, engineVars, meterVars, graphVars, lifeVars>>

CaptureNext ==
  \/ Connect
  \/ OnOpen
  \/ SessionResolves
  \/ \E heard \in Samples : OnAudioProcess(heard)
  \/ RunThen
  \/ toggleMic

CaptureSpec == Init /\ [][CaptureNext]_vars

\* ------------------------------------------- the signal graph of play()

\* this.isochronicOsc.frequency.value = 150
IsoCarrierHz == 150

\* 1. Ambient pad: noise source through the low-pass filter, whose cutoff a
\* slow oscillator moves.
AmbientEdges ==
  { <<"filterLFO", 0, "lfoGain", "in0">>,
    <<"lfoGain", 0, "filter", "frequency">>,
    <<"ambientSource", 0, "filter", "in0">>,
    <<"filter", 0, "ambientGain", "in0">>,
    <<"ambientGain", 0, "masterGain", "in0">> }

\* Variant of BinauralEdges in which both connect calls leave out the input
\* index, which then defaults to 0.
BinauralEdgesDefaultInput ==
  { <<"binauralLeft", 0, "merger", "in0">>,
    <<"binauralRight", 0, "merger", "in0">>,
    <<"merger", 0, "binauralGain", "in0">>,
    <<"binauralGain", 0, "masterGain", "in0">> }

\* 2. Binaural beats: connect(merger, 0, 0) and connect(merger, 0, 1).
BinauralEdges ==
  { <<"binauralLeft", 0, "merger", "in0">>,
    <<"binauralRight", 0, "merger", "in1">>,
    <<"merger", 0, "binauralGain", "in0">>,
    <<"binauralGain", 0, "masterGain", "in0">> }

\* 3. Isochronic tones.
IsochronicEdges ==
  { <<"isochronicLFO", 0, "lfoGainNode", "in0">>,
    <<"lfoGainNode", 0, "isoGain", "gain">>,
    <<"isochronicOsc", 0, "isoGain", "in0">>,
    <<"isoGain", 0, "masterGain", "in0">>,
    <<"isochronicLFO", 0, "isoGain", "gain">> }

\* The connections the body of play(cfg) makes.
PlayEdges(cfg) ==
  AmbientEdges \cup BinauralEdges
  \cup (IF cfg.isochronic THEN IsochronicEdges ELSE {})

\* frequency.value of the audio-rate oscillators after play(cfg); filterLFO,
\* at 0.1 Hz, is not followed.
PlayFrequency(cfg) ==
  [o \in Oscillators |->
     CASE o = "binauralLeft" -> cfg.baseFreq
       [] o = "binauralRight" -> cfg.baseFreq + cfg.binauralFreq
       [] o = "isochronicOsc" -> IF cfg.isochronic THEN IsoCarrierHz ELSE 0
       [] o = "isochronicLFO" -> IF cfg.isochronic THEN cfg.binauralFreq ELSE 0
       [] OTHER -> 0]

\* Samples are kept as integers over the common denominator
\* 2 * 51^(NumChannels * BufLen), so that the filter below is exact.
FilterScale == 51 ^ (NumChannels * BufLen)

\* (lastOut + (0.02 * white)) / 1.02, that is (50 * lastOut + white) / 51.
Leak(lastOut, w) == (50 * lastOut + w * FilterScale) \div 51

\* The values lastOut takes over one channel's frames, from prev on.
RECURSIVE FilterRun(_, _)
FilterRun(ws, prev) ==
  IF ws = <<>> THEN <<>>
  ELSE LET out == Leak(prev, Head(ws)) IN <<out>> \o FilterRun(Tail(ws), out)

\* data[i] *= 3.5, over the denominator 2 * FilterScale.
Amplify(outs) == [i \in 1..Len(outs) |-> 7 * outs[i]]

\* The channel loop, from channel ch on, entered with lastOut = prev: the
\* variable is declared once, before the loop, and is not reset per channel.
RECURSIVE FillFrom(_, _, _)
FillFrom(ch, prev, w) ==
  IF ch > NumChannels THEN <<>>
  ELSE LET outs == FilterRun(w[ch], prev)
       IN <<Amplify(outs)>> \o FillFrom(ch + 1, outs[Len(outs)], w)

\* let lastOut = 0; for (channel ...) for (i ...) { ... }
FillBuffer(w) == FillFrom(1, 0, w)

\* A gain of 1.0, in the hundredths gainValue is counted in.
Unity == 100

\* gain.value of the gain nodes after play(cfg): lfoGain 200, ambientGain
\* 0.15, binauralGain 0.1, and, when isochronic, lfoGainNode 1.0 and isoGain
\* 0; a node that was not created counts 0.
PlayGains(cfg) ==
  [g \in GainNodes |->
     CASE g = "lfoGain" -> 200 * Unity
       [] g = "ambientGain" -> 15
       [] g = "binauralGain" -> 10
       [] g = "lfoGainNode" -> IF cfg.isochronic THEN Unity ELSE 0
       [] OTHER -> 0]

\* Variant of StartArg in which binauralRight.start() gets no argument.
StartArgRightDefault(k, t) == IF k = "binauralRight" THEN 0 ELSE t

\* The time passed to start() of node k: the t read at line 36.
StartArg(k, t) == t

\* The start calls the body of play(cfg) makes when the clock shows t.
PlayStarted(cfg, t) ==
  { <<k, StartArg(k, t)>> : k \in StartedKinds(cfg.isochronic) }

\* The clock of the engine's context advances.
GraphTick ==
  /\ clock < MaxCtxTime
  /\ clock' = clock + 1
  /\ UNCHANGED <<config, built, edges, frequency, gainValue, started, white,
                 data>>
  /\ UNCHANGED <<schedVars, engineVars, captureVars, meterVars, lifeVars>>

\* The body of play(config), from `const t = this.ctx!.currentTime` on.
BuildGraph ==
  /\ ~built
  /\ built' = TRUE
  /\ edges' = PlayEdges(config)
  /\ frequency' = PlayFrequency(config)
  /\ gainValue' = PlayGains(config)
  /\ data' = FillBuffer(white)
  /\ started' = PlayStarted(config, clock)
  /\ UNCHANGED <<config, clock, white>>
  /\ UNCHANGED <<schedVars, engineVars, captureVars, meterVars, lifeVars>>

GraphInit ==
  /\ SchedInit /\ EngineInit /\ CaptureInit /\ MeterInit /\ LifeInit
  /\ config \in {PlayConfigOf(MusicConfigOf(d)) : d \in GeneratedData}
  /\ white \in WhiteDraws
  /\ NoGraph

GraphNext == GraphTick \/ BuildGraph

GraphSpec == GraphInit /\ [][GraphNext]_vars

\* ------------------------------------------------ life cycle of a session

\* callbacks.onclose: the voice session has closed.
OnClose ==
  /\ sessionRef = "open"
  /\ sessionRef' = "closed"
  /\ isConnected' = FALSE
  /\ live' = [live EXCEPT !["session"] = @ - 1]
  /\ UNCHANGED <<audioContextRef, modelState, now, nextStartTimeRef, sourcesRef,
                 analyserRef, currentVolume, chunk, arrived, interrupts, lastReset>>
  /\ closedAt' = Len(produced)
  /\ UNCHANGED <<mounted, sessionError, sessions>>
  /\ UNCHANGED <<engineVars, captureVars, meterVars, graphVars>>

\* callbacks.onerror: the voice session has failed.
OnError ==
  /\ sessionRef \in {"pending", "open"}
  /\ sessionRef' = "closed"
  /\ sessionError' = TRUE
  /\ isConnected' = FALSE
  /\ live' = [live EXCEPT !["session"] = @ - 1]
  /\ UNCHANGED <<audioContextRef, modelState, now, nextStartTimeRef, sourcesRef,
                 analyserRef, currentVolume, chunk, arrived, interrupts, lastReset>>
  /\ closedAt' = Len(produced)
  /\ UNCHANGED <<mounted, sessions>>
  /\ UNCHANGED <<engineVars, captureVars, meterVars, graphVars>>

\* The Dismiss control of the error banner: setError(null).
Dismiss ==
  /\ mounted
  /\ sessionError
  /\ sessionError' = FALSE
  /\ UNCHANGED <<mounted, sessions, live, closedAt>>
  /\ UNCHANGED <<schedVars, engineVars, captureVars, meterVars, graphVars>>

\* What the unmount cleanup releases: the objects the refs hold now.
ReleasedByCleanup ==
  {r \in Resources :
     \/ r = "processor" /\ processorRef
     \/ r = "stream" /\ streamRef
     \/ r = "outputCtx" /\ audioContextRef
     \/ r = "inputCtx" /\ inputContextRef
     \/ r = "session" /\ sessionRef \in {"pending", "open"}}

\* The cleanup of the unmount effect: lyria.stop(), then the processor, the
\* stream, the two contexts and the session held in the refs are released.
Unmount ==
  /\ mounted
  /\ mounted' = FALSE
  /\ isPlaying' = FALSE
  /\ StopBody({})
  /\ error' = "none"
  /\ lastCall' = "stop"
  /\ UNCHANGED <<ctx, ctxState, masterGain, gain, plays, play>>
  /\ onaudioprocess' = (IF processorRef THEN FALSE ELSE onaudioprocess)
  /\ sessionRef' = (IF sessionRef \in {"pending", "open"} THEN "closed"
                    ELSE sessionRef)
  /\ live' = [r \in Resources |->
               IF r \in ReleasedByCleanup THEN live[r] - 1 ELSE live[r]]
  /\ UNCHANGED <<audioContextRef, isConnected, modelState, now, nextStartTimeRef,
                 sourcesRef, analyserRef, currentVolume, chunk, arrived,
                 interrupts, lastReset>>
  /\ UNCHANGED <<inputContextRef, streamRef, trackEnabled, micOn, processorRef,
                 sessionResolved, produced, thenQueue, sent>>
  /\ UNCHANGED <<sessionError, sessions, closedAt>>
  /\ UNCHANGED <<meterVars, graphVars>>

\* The session with the closing of the voice session, the error banner and the
\* unmounting of the component.  The cleanup closes the output context, whose
\* clock then stands still.
LifecycleNext ==
  \/ Connect
  \/ OnOpen
  \/ mounted /\ Tick
  \/ \E ok \in BOOLEAN, d \in Durations, intr \in BOOLEAN : OnMessageAudio(ok, d, intr)
  \/ \E c \in Chunks : DecodeResolve(c, {})
  \/ \E c \in Chunks : DecodeReject(c)
  \/ OnMessageInterrupted({})
  \/ \E c \in Chunks : OnEnded(c)
  \/ OnClose
  \/ OnError
  \/ Dismiss
  \/ Unmount

LifecycleSpec == Init /\ [][LifecycleNext]_vars

\* The microphone control is rendered: isConnected || error.
MicShown == mounted /\ (isConnected \/ sessionError)

\* The mute control and the framing of what the microphone delivers, over the
\* life cycle of the sessions.
MuteNext ==
  \/ Connect
  \/ OnOpen
  \/ MicShown /\ toggleMic
  \/ \E heard \in Samples : OnAudioProcess(heard)
  \/ OnClose
  \/ OnError
  \/ Dismiss
  \/ Unmount

MuteSpec == Init /\ [][MuteNext]_vars

\* The capture path of the first session, with the closing of that session.
CloseNext ==
  \/ sessionRef = "null" /\ Connect
  \/ OnOpen
  \/ SessionResolves
  \/ \E heard \in Samples : OnAudioProcess(heard)
  \/ RunThen
  \/ OnClose
  \/ OnError
  \/ Unmount

CloseSpec == Init /\ [][CloseNext]_vars

\* ------------------------------------- the two components, with stop faults

\* The sets of sources whose .stop() may throw during one flush of S.
FlushFaults(S) == {G \in SUBSET S : Cardinality(G) <= MaxFaults}

\* No method of the engine has been called.
EngineUntouched == plays = 0 /\ lastCall = "new"

\* The session has not been started.
SessionUntouched == sessionRef = "null"

\* Each behaviour runs one of the two components from the initial state: the
\* session, where .stop() of a source may throw during a flush, or the engine,
\* where .stop() of a node may throw during stop().
ComponentsNext ==
  \/ EngineUntouched /\ Connect
  \/ EngineUntouched /\ OnOpen
  \/ EngineUntouched /\ Tick
  \/ \E ok \in BOOLEAN, d \in Durations, intr \in BOOLEAN :
        EngineUntouched /\ OnMessageAudio(ok, d, intr)
  \/ \E c \in Chunks : \E G \in FlushFaults(sourcesRef \cup {c}) :
        EngineUntouched /\ DecodeResolve(c, G)
  \/ \E c \in Chunks : EngineUntouched /\ DecodeReject(c)
  \/ \E G \in FlushFaults(sourcesRef) : EngineUntouched /\ OnMessageInterrupted(G)
  \/ \E c \in Chunks : EngineUntouched /\ OnEnded(c)
  \/ \E iso \in BOOLEAN, st \in {"suspended", "running"} :
        \E F \in StopFaults : SessionUntouched /\ PlayCall(iso, st, F)
  \/ \E p \in Plays : \E F \in StopFaults : SessionUntouched /\ PlayAfterInit(p, F)
  \/ \E p \in Plays : \E F \in StopFaults : SessionUntouched /\ PlayAfterResume(p, F)
  \/ \E F \in StopFaults : SessionUntouched /\ Stop(F)
  \/ \E val \in Volumes : SessionUntouched /\ SetVolume(val)
  \/ \E F \in StopFaults : SessionUntouched /\ Destroy(F)

ComponentsSpec == Init /\ [][ComponentsNext]_vars

\* ------------------------------------------------ PlaybackScheduler claims

\* The chunk has been started and added to sourcesRef at some point.
IsScheduled(c) == chunk[c].st \in {"playing", "done"}

\* The step is the continuation of chunk c's onmessage call after the await.
Schedules(c) == chunk[c].st = "decoding" /\ chunk'[c].st = "playing"

\* The step is the rejection of chunk c's decode.
Rejects(c) == chunk[c].st = "decoding" /\ chunk'[c].st = "failed"

\* The step receives an audio message.
Arrives == arrived' = arrived + 1

\* The step runs the interruption branch.
InterruptionRuns == interrupts' = interrupts + 1

\* The handles in sourcesRef when the interruption branch of the step starts.
FlushSet == sourcesRef \cup {c \in Chunks : Schedules(c)}

\* C1 (as claimed): with no interruption so far, two decoded chunks that follow
\* each other in arrival order, the second received before the scheduled end
\* of the first, have start times with start_j = start_i + d_i.
C1_Gapless ==
  interrupts = 0 =>
    \A i, j \in Chunks :
      ( /\ i < j
        /\ IsScheduled(i) /\ IsScheduled(j)
        /\ \A k \in Chunks : (i < k /\ k < j) => ~chunk[k].ok
        /\ now < chunk[i].when + chunk[i].dur )
      => chunk[j].when = chunk[i].when + chunk[i].dur

\* C2 (as claimed): no two scheduled chunks that were never stopped have
\* intersecting audible intervals [began, began + dur).
C2_NoOverlap ==
  \A i, j \in Chunks :
    ( /\ i # j
      /\ IsScheduled(i) /\ IsScheduled(j)
      /\ ~chunk[i].stopReq /\ ~chunk[j].stopReq )
    => ~( /\ chunk[i].began < chunk[j].began + chunk[j].dur
          /\ chunk[j].began < chunk[i].began + chunk[i].dur )

\* C3: a run of the interruption branch that finds N >= 1 handles requests
\* stop on each of them, leaves sourcesRef empty, the cursor at the current
\* clock time and the model state 'listening'; and a chunk received after the
\* latest interruption is started at a time not earlier than the cursor value
\* that interruption assigned.
C3_InterruptionFlush ==
  [][ /\ (InterruptionRuns /\ FlushSet # {}) =>
           /\ \A c \in FlushSet : chunk'[c].stopReq
           /\ sourcesRef' = {}
           /\ nextStartTimeRef' = now'
           /\ modelState' = "listening"
      /\ \A c \in Chunks :
           (Schedules(c) /\ chunk[c].fresh /\ interrupts >= 1)
             => chunk'[c].when >= lastReset ]_vars

\* C3 witness: some handle was flushed, and a chunk received after the latest
\* interruption has been scheduled.
C3_Witness ==
  /\ \E k \in Chunks : chunk[k].stopReq
  /\ \E c \in Chunks : IsScheduled(c) /\ chunk[c].fresh /\ interrupts >= 1

\* C4 (as claimed): no chunk is started and added to sourcesRef after an
\* interruption that was processed while the chunk's decode was pending.
C4_AtomicInterruption ==
  [][ \A c \in Chunks : Schedules(c) => chunk[c].fresh ]_vars

\* C5 (as claimed): once the session is open, the model state is 'speaking'
\* exactly when sourcesRef is non-empty and 'listening' exactly when it is
\* empty.
C5_StateDerived ==
  sessionRef = "open" =>
    /\ (modelState = "speaking") <=> (sourcesRef # {})
    /\ (modelState = "listening") <=> (sourcesRef = {})

\* C6 (as claimed): an interruption that finds sourcesRef empty leaves the
\* cursor at its previous value and sourcesRef empty.
C6_EmptyInterruptNoOp ==
  [][ (InterruptionRuns /\ FlushSet = {}) =>
        /\ nextStartTimeRef' = nextStartTimeRef
        /\ sourcesRef' = {} ]_vars

\* C6 (amended): an interruption that finds sourcesRef empty leaves it empty,
\* requests no stop and sets the cursor to the current clock time.
C6_EmptyInterruptResets ==
  [][ (InterruptionRuns /\ FlushSet = {}) =>
        /\ nextStartTimeRef' = now
        /\ sourcesRef' = {}
        /\ \A c \in Chunks : chunk'[c].stopReq = chunk[c].stopReq ]_vars

\* C6 witness: an interruption has run although no handle was ever flushed, and
\* it moved the cursor.
C6_Witness ==
  /\ interrupts >= 1
  /\ \A c \in Chunks : ~chunk[c].stopReq /\ ~chunk[c].intr
  /\ lastReset > 0

\* C7 (as claimed): neither the receipt of an undecodable chunk nor the
\* rejection of its decode changes the cursor, and the rejection leaves
\* sourcesRef and every other chunk as they were.
C7_DecodeFailureIsolated ==
  [][ /\ (Arrives /\ ~chunk'[arrived'].ok) => nextStartTimeRef' = nextStartTimeRef
      /\ \A c \in Chunks :
           Rejects(c) =>
             /\ nextStartTimeRef' = nextStartTimeRef
             /\ sourcesRef' = sourcesRef
             /\ \A k \in Chunks \ {c} : chunk'[k] = chunk[k] ]_vars

\* C8 (as claimed): with no interruption so far, a chunk received earlier is
\* never given a later start time than a chunk received after it.
C8_ArrivalOrder ==
  interrupts = 0 =>
    \A i, j \in Chunks :
      (i < j /\ IsScheduled(i) /\ IsScheduled(j)) => chunk[i].when <= chunk[j].when

\* C9 (as claimed): no step assigns the cursor a smaller value.
C9_CursorMonotone ==
  [][ nextStartTimeRef' >= nextStartTimeRef ]_vars

\* C9 (amended): no step other than a run of the interruption branch assigns
\* the cursor a smaller value.
C9_CursorMonotoneExceptInterrupt ==
  [][ ~InterruptionRuns => nextStartTimeRef' >= nextStartTimeRef ]_vars

\* C9 witness: after an interruption reset the cursor, chunk scheduling has
\* moved it forward again, ahead of the clock.
C9_Witness ==
  /\ interrupts >= 1
  /\ nextStartTimeRef > lastReset
  /\ nextStartTimeRef > now

\* ------------------------------------------------------ LyriaEngine claims

\* No play() call is suspended at an await.
NoPlayPending == \A p \in Plays : play[p].pc \in {"none", "done"}

\* C10 (as claimed): while no context has been closed and no play is pending,
\* the source nodes started and not stopped are none after stop(), and exactly
\* one instance of each generator of the last play after play().
C10_NoOrphanedNodes ==
  (NoPlayPending /\ \A g \in Plays : ctxState[g] # "closed") =>
    /\ lastCall = "stop" => running = {}
    /\ (lastCall = "play" /\ error = "none") =>
         \E p \in Plays : running = StartedByPlay(p, play[p].iso)

\* The engine has never played, or the last call that ran on it was stop().
IdleEngine == plays = 0 \/ lastCall = "stop"

\* C11: a stop() on an engine that never played or was already stopped leaves
\* the context, the master gain, every node field and isPlaying as they were,
\* and raises no error.
C11_StopIdempotent ==
  [][ (IdleEngine /\ lastCall' = "stop" /\ plays' = plays) =>
        /\ UNCHANGED <<ctx, masterGain, ambientSource, binauralLeft,
                       binauralRight, isochronicOsc, isochronicLFO, isPlaying>>
        /\ error' = "none" ]_vars

\* C11 witness: stop() has run on an engine that never played.
C11_Witness == lastCall = "stop" /\ plays = 0

\* C12 (as claimed): the call that follows destroy() ends in an error.
C12_DestroyedFailsFast ==
  [][ (lastCall = "destroy" /\ lastCall' # "destroy") => error' # "none" ]_vars

\* The body of play number p runs to its end in this step.
Completes(p) ==
  /\ play[p].pc # "done"
  /\ play'[p].pc = "done"
  /\ lastCall' = "play"
  /\ error' = "none"

IsoKinds == {"isochronicOsc", "isochronicLFO"}

\* C15: when play(config) returns, the isochronic carrier and modulator of that
\* call are held and running if config.isochronic is set, and otherwise no
\* isochronic node is held or running, those of earlier plays included.
C15_IsochronicGating ==
  [][ \A p \in Plays : Completes(p) =>
        /\ {<<n[1], n[2]>> : n \in {m \in running' : m[1] \in IsoKinds}}
             = (IF play'[p].iso THEN {<<k, p>> : k \in IsoKinds} ELSE {})
        /\ isochronicOsc' = (IF play'[p].iso THEN p ELSE 0)
        /\ isochronicLFO' = (IF play'[p].iso THEN p ELSE 0) ]_vars

\* C15 witness: a play with isochronic tones has run, and the last call that
\* ran is a play without them.
C15_Witness ==
  /\ \E p \in Plays : play[p].pc = "done" /\ play[p].iso
  /\ lastCall = "play" /\ error = "none"
  /\ isochronicOsc = 0
  /\ ambientSource # 0

\* C17: every source node that one play starts (noise loop, filter LFO, both
\* binaural oscillators and, with isochronic tones, carrier and modulator) is
\* started with the one time the clock shows when the body of play runs.
C17_AlignedStart ==
  [][ (~built /\ built') =>
        started' = {<<k, clock>> : k \in StartedKinds(config.isochronic)} ]_vars

\* C17 witness: a play with isochronic tones started its six nodes after the
\* clock had advanced.
C17_Witness ==
  /\ built
  /\ config.isochronic
  /\ \E t \in 1..MaxCtxTime : started = {<<k, t>> : k \in StartedKinds(TRUE)}

\* The connections that leave node n.
EdgesFrom(n) == {e \in edges : e[1] = n}

\* C16: in the graph built by play, the oscillator at baseFreq is connected to
\* input 0 (left) of the channel merger and to nothing else, and the
\* oscillator at baseFreq + binauralFreq to input 1 (right) and to nothing
\* else; the merger alone feeds the binaural attenuator.
C16_ChannelSeparation ==
  built =>
    /\ frequency["binauralLeft"] = config.baseFreq
    /\ EdgesFrom("binauralLeft") = {<<"binauralLeft", 0, "merger", "in0">>}
    /\ frequency["binauralRight"] = config.baseFreq + config.binauralFreq
    /\ EdgesFrom("binauralRight") = {<<"binauralRight", 0, "merger", "in1">>}
    /\ {e \in edges : e[3] = "merger"}
         = EdgesFrom("binauralLeft") \cup EdgesFrom("binauralRight")
    /\ {e[1] : e \in {d \in edges : d[3] = "binauralGain"}} = {"merger"}

\* C16 witness: a graph with a non-zero beat has been built.
C16_Witness ==
  /\ built
  /\ config.binauralFreq > 0
  /\ frequency["binauralRight"] > frequency["binauralLeft"]
  /\ <<"binauralRight", 0, "merger", "in1">> \in edges

\* ------------------------------------------------------- teardown claims

\* C13: a stop() of the engine leaves every node field empty and none of the
\* nodes it held running, and a run of the interruption branch asks every
\* tracked source to stop and leaves sourcesRef empty, whichever of the
\* .stop() calls threw.
C13_NoCascadingAbort ==
  [][ /\ (lastCall' \in {"stop", "destroy"} /\ plays' = plays) =>
           /\ HeldKinds' = {}
           /\ \A n \in running' : ~(n[1] \in SlotKinds /\ n[2] = Slot(n[1]))
      /\ InterruptionRuns =>
           /\ sourcesRef' = {}
           /\ \A c \in sourcesRef : chunk'[c].stopReq ]_vars

\* C13 witness: a stop() that followed a play caught an exception and left
\* every node field empty.
C13_Witness ==
  /\ lastCall = "stop"
  /\ caught # "none"
  /\ \E p \in Plays : play[p].pc = "done"
  /\ HeldKinds = {}

\* C14: the engine has no context before the first play() call, every engine
\* context that exists or existed was created by a play() call that has been
\* made, and the session has neither of its two contexts before
\* connectToLiveAPI has run.
C14_LazyContexts ==
  /\ plays = 0 => ctx = 0
  /\ ctx # 0 => ctx \in 1..plays
  /\ \A g \in Plays : ctxState[g] # "none" => g \in 1..plays
  /\ (audioContextRef \/ inputContextRef) => ~SessionUntouched

\* C14 witness: the first play() has created the engine's context after other
\* methods had run without creating one.
C14_Witness ==
  /\ plays = 1
  /\ ctx = 1
  /\ masterGain
  /\ play[1].pc = "init"
  /\ lastCall \in {"stop", "setVolume", "destroy"}

\* -------------------------------------------------------- capture claims

\* The blobs that sendRealtimeInput has received, in call order.
SentBlobs == [i \in 1..Len(sent) |-> sent[i].media]

\* C18: the blobs sent so far followed by those of the pending reactions are
\* the encodings of the frames produced so far, one each and in production
\* order; nothing is sent before the session promise has resolved.
C18_CaptureDelivery ==
  /\ SentBlobs \o thenQueue = [i \in 1..Len(produced) |-> createPcmBlob(produced[i])]
  /\ ~sessionResolved => sent = <<>>

\* C18 witness: the first two frames have been sent, in production order, and
\* no reaction is pending.
C18_Witness ==
  /\ Len(sent) >= 2
  /\ thenQueue = <<>>
  /\ sent[1].media.data[2] = 1
  /\ sent[2].media.data[2] = 2

\* C19: a toggleMic call on a live stream inverts micOn and sets the tracks'
\* enabled flag to the new micOn, and changes nothing else of the capture
\* path or the session: processor, callback, stream, contexts, session,
\* frames produced, pending and sent.
C19_MuteKeepsFraming ==
  [][ micOn' # micOn =>
        /\ streamRef
        /\ trackEnabled' = micOn'
        /\ UNCHANGED <<processorRef, onaudioprocess, streamRef, inputContextRef,
                       sessionRef, sessionResolved, isConnected, produced,
                       thenQueue, sent>> ]_vars

\* C19 witness: while the microphone is muted a frame of silence has been
\* produced and sent.
C19_Witness ==
  /\ ~micOn
  /\ ~trackEnabled
  /\ onaudioprocess
  /\ \E i \in 1..Len(sent) : sent[i].media.data[3] = "silence"

\* ------------------------------------------------------ level meter claims

\* A run of the interval callback.
Polls == polls' = polls + 1

\* C20 (as claimed): a run of the interval callback emits 0 when sourcesRef is
\* empty, and when it is not, reads an analyser and emits the mean of the
\* bins over 128, capped at 1.
C20_MeterGating ==
  [][ Polls =>
        /\ sourcesRef = {} => currentVolume' = 0
        /\ sourcesRef # {} =>
             /\ sampled'.analyser # 0
             /\ currentVolume' = VolumeOf(sampled'.bins) ]_vars


--------------------------------------------------------------------------
\* Claims about the configuration and the isochronic wiring.

\* C22 (as stated): every configuration passed to LyriaEngine.play has
\* binauralFreq > 0 and baseFreq > 0.
C22_ConfigValidated ==
  built => (config.binauralFreq > 0 /\ config.baseFreq > 0)

\* The connections into parameter prm of node n.
EdgesInto(n, prm) == {e \in edges : e[3] = n /\ e[4] = prm}

RECURSIVE SumOver(_, _)
SumOver(S, f) ==
  IF S = {} THEN 0
  ELSE LET x == CHOOSE y \in S : TRUE IN f[x] + SumOver(S \ {x}, f)

\* Peak amplitude, in hundredths, of the signal node n puts out: 1.0 for an
\* oscillator, for a gain node its gain times the sum of what is connected
\* to its input.  Only followed through the isochronic control path.
Amplitude(n) ==
  IF n \in Oscillators THEN Unity
  ELSE LET ins == EdgesInto(n, "in0")
       IN (gainValue[n] * SumOver(ins, [e \in ins |-> Unity])) \div Unity

\* Peak swing, in hundredths, of everything connected to isoGain.gain.
ControlSwing ==
  LET ins == EdgesInto("isoGain", "gain")
  IN SumOver(ins, [e \in ins |-> Amplitude(e[1])])

\* C26 (as stated): with isochronic on, isoGain.gain has static level 0 and
\* receives the square-wave modulator through exactly one connection, of
\* unity weight.
C26_IsoModulation ==
  (built /\ config.isochronic) =>
    /\ gainValue["isoGain"] = 0
    /\ Cardinality(EdgesInto("isoGain", "gain")) = 1
    /\ ControlSwing = Unity


\* C25 (as stated): the noise channels are independent; each channel is the
\* filter run over its own draws with prev starting at 0.
C25_ChannelsIndependent ==
  built => \A ch \in 1..NumChannels : data[ch] = Amplify(FilterRun(white[ch], 0))


--------------------------------------------------------------------------
\* Claims about errors on teardown and about stop() during a pending play.

\* C27 (as stated): an error of a node's .stop() other than 'already stopped'
\* is not swallowed by stop(): the call ends with that error.
C27_SelectiveSwallow ==
  (lastCall \in {"stop", "destroy"} /\ caught \notin {"none", AlreadyStopped})
     => error = caught

\* A suspended play number p runs its body in this step.
Resumes(p) == play[p].pc \in {"init", "resume"} /\ play'[p].pc = "done"

\* C28 (as stated): when the last call was stop() and a play suspended since
\* before that stop resumes, it does not start the layers.
C28_StopWinsOverPendingPlay ==
  [][ \A p \in Plays :
        (lastCall = "stop" /\ Resumes(p)) => (running' = {} /\ ~isPlaying') ]_vars


--------------------------------------------------------------------------
\* Claims about the model state and the level meter.

\* The session under the scheduling the platform gives: the clock advances, a
\* pending decodeAudioData settles, and onended fires for a source that has
\* played out or was stopped.  Nothing obliges the server to send a message.
LiveSpec ==
  /\ Spec
  /\ WF_vars(Tick)
  /\ \A c \in Chunks :
       /\ WF_vars(DecodeResolve(c, {}))
       /\ WF_vars(DecodeReject(c))
       /\ WF_vars(OnEnded(c))

\* C21 (as stated): whenever the model state is 'speaking' it becomes
\* 'listening' again; it does not stay 'speaking' forever once chunks stop
\* arriving, also when the chunk that set 'speaking' fails to decode.
C21_ReturnToListening ==
  (modelState = "speaking") ~> (modelState = "listening")


Audible(c) ==
  /\ chunk[c].st = "playing"
  /\ ~chunk[c].stopReq
  /\ chunk[c].began <= now
  /\ now < chunk[c].began + chunk[c].dur

\* C24 (as stated): a run of the interval callback that reads an analyser
\* while a chunk is audible reads the analyser of an audible chunk.
C24_SamplesAudibleChunk ==
  [][ (Polls /\ sampled'.analyser # 0 /\ \E c \in Chunks : Audible(c))
         => Audible(sampled'.analyser) ]_vars


--------------------------------------------------------------------------
\* Claims about the life cycle of a session.

\* C29 (as stated): when a session starts, on the first connect or on a
\* reconnect, the cursor is not later than the current time of the output
\* context that session uses.
C29_CursorStartsFresh ==
  sessionRef = "pending" => nextStartTimeRef <= now

\* C30 (as stated): at most one output context, input context, capture
\* stream, capture processor and voice session is open at any time, and after
\* the unmount cleanup none is.
C30_SingleLiveSession ==
  /\ \A r \in Resources : live[r] <= 1
  /\ ~mounted => \A r \in Resources : live[r] = 0


--------------------------------------------------------------------------
\* Claims about the master gain, the mute flag and capture after close.

\* C32 (as stated): masterGain is present only if the context is present, and
\* setVolume never throws.
C32_MasterGainImpliesCtx ==
  /\ masterGain => ctx # 0
  /\ lastCall = "setVolume" => error = "none"


\* C31 (as stated): while a capture stream that has not been stopped exists,
\* micOn is false if and only if the tracks of that stream are disabled.
C31_MuteMatchesMic ==
  (streamRef /\ mounted) => (micOn <=> trackEnabled)

\* The sequence numbers of the frames passed to session.sendRealtimeInput.
SentSeqs == {sent[i].media.data[2] : i \in 1..Len(sent)}

\* C33 (as stated): no frame captured after onclose or onerror of the session
\* was handled is passed to sendRealtimeInput of that session.
C33_NoCaptureAfterClose ==
  closedAt >= 0 => \A n \in SentSeqs : n <= closedAt

====
